---- MODULE Spec2Model ----
(***************************************************************************)
(* Shared-inventory synchronisation for multi-variant Shopify products.    *)
(*                                                                         *)
(* State: the product-group registry (product_groups.json), the            *)
(* reservation ledger (reservations.json), the quantities held by the      *)
(* Shopify catalog, and the HTTP requests in flight.  A request runs       *)
(* atomically between two network calls: db.js does synchronous file I/O,  *)
(* so an `await` on a db function never yields to another request, while   *)
(* every `await shopifyClient.request(...)` does.                          *)
(***************************************************************************)
EXTENDS Integers, Sequences, FiniteSets, TLC

\* ------------------------------------------------------------- bounds
MaxLevel == 2          \* largest inventory level of the catalog / registry
MaxInFlight == 2       \* requests that may be in flight at the same time
MaxTime == 2           \* the clock stops here
MaxReservations == 2   \* records the ledger file may hold
MaxQuantity == 2       \* largest quantity of a reservation or of a consume call
MaxStamp == 1          \* latest reservedAt a caller hands to createReservation

\* "Cart reservations expire after 30 minutes": two ticks of a 15-minute clock.
ReservationTtl == 2

\* ------------------------------------------------------------- identifiers
\* An identifier is a JavaScript value: a string or a number with the same digits.
Str(n) == <<"str", n>>
Num(n) == <<"num", n>>
\* String(x) of db.js: a number becomes the string of its digits.
String(x) == <<"str", x[2]>>

\* The multi-variant product found by the start-up scan, and one
\* single-variant product (variant 9, inventory item 9) that is not grouped.
GroupedNums == {1, 2}
UngroupedNum == 9
AllNums == GroupedNums \cup {UngroupedNum}

VARIABLES
  productGroups,   \* content of product_groups.json: a sequence of group records
  reservations,    \* content of reservations.json: a sequence of reservation records
  catalog,         \* Shopify's available quantity of each grouped inventory item
  req,             \* the requests in flight, one slot each
  last,            \* the response of the request that completed last
  now,             \* the wall clock (new Date()), read by the ledger functions
  returned         \* the last call of a ledger function and what it returned

vars == <<productGroups, reservations, catalog, req, last, now, returned>>

\* ------------------------------------------------------------- db.js, registry
Includes(seq, x) == \E k \in 1..Len(seq) : seq[k] = x

\* Array.prototype.findIndex / find: the first position that passes, 0 for none.
FirstIndex(seq, Test(_)) ==
  IF \E k \in 1..Len(seq) : Test(seq[k])
  THEN CHOOSE k \in 1..Len(seq) : Test(seq[k]) /\ \A j \in 1..(k - 1) : ~Test(seq[j])
  ELSE 0

findProductGroupByVariantId(variantId) ==
  LET Has(g) == Includes(g.variantIds, String(variantId))
  IN FirstIndex(productGroups, Has)

\* A lookup that answers with the first group for any item.
findFirstGroup(inventoryItemId) == IF Len(productGroups) > 0 THEN 1 ELSE 0

findProductGroupByInventoryItemId(inventoryItemId) ==
  LET Has(g) == Includes(g.inventoryItemIds, String(inventoryItemId))
  IN FirstIndex(productGroups, Has)

\* An update that writes the first group whatever id it is given.
updateFirstGroup(productGroupId, newSharedInventoryCount) ==
  IF Len(productGroups) > 0
  THEN [productGroups EXCEPT ![1].sharedInventoryCount = newSharedInventoryCount]
  ELSE productGroups

updateProductGroupInventory(productGroupId, newSharedInventoryCount) ==
  LET Is(g) == g.id = productGroupId
      groupIndex == FirstIndex(productGroups, Is)
  IN IF groupIndex > 0
     THEN [productGroups EXCEPT ![groupIndex].sharedInventoryCount = newSharedInventoryCount]
     ELSE productGroups


\* ------------------------------------------------------------- registry writes
\* === of db.js: identifiers are equal when type and digits are equal.
GroupIndexById(id) ==
  IF \E k \in 1..Len(productGroups) : productGroups[k].id = id
  THEN CHOOSE k \in 1..Len(productGroups) :
         /\ productGroups[k].id = id
         /\ \A j \in 1..(k - 1) : productGroups[j].id # id
  ELSE 0

saveProductGroup(productGroup) ==
  LET groupIndex == GroupIndexById(productGroup.id)
  IN IF groupIndex > 0
     THEN [productGroups EXCEPT ![groupIndex] = productGroup]
     ELSE Append(productGroups, productGroup)

getProductGroup(productId) == GroupIndexById(productId)

removeProductGroup(productId) == SelectSeq(productGroups, LAMBDA g : g.id # productId)

\* ------------------------------------------------------------- db.js, ledger
\* The positions of seq that pass Test, in file order (Array.prototype.filter).
FilterIndex(seq, Test(_)) ==
  LET F[k \in 0..Len(seq)] ==
        IF k = 0 THEN << >>
        ELSE IF Test(seq[k]) THEN Append(F[k - 1], k) ELSE F[k - 1]
  IN F[Len(seq)]

\* A sort that leaves the list in file order.
SortNot(all, idxs) == idxs

\* Array.prototype.sort with (a, b) => reservedAt(a) - reservedAt(b): ascending
\* and stable, so equal timestamps keep their file order.
SortByReservedAt(all, idxs) ==
  LET Insert(sorted, i) ==
        LET before == {k \in 1..Len(sorted) : all[sorted[k]].reservedAt <= all[i].reservedAt}
            n == Cardinality(before)
        IN SubSeq(sorted, 1, n) \o <<i>> \o SubSeq(sorted, n + 1, Len(sorted))
      S[k \in 0..Len(idxs)] == IF k = 0 THEN << >> ELSE Insert(S[k - 1], idxs[k])
  IN S[Len(idxs)]

\* A filter that forgets the status test.
IsEligibleAnyStatus(r, productGroupId) ==
  /\ r.productGroupId = productGroupId
  /\ r.expiresAt > now

\* A filter that forgets the expiry test.
IsEligibleAnyExpiry(r, productGroupId) ==
  /\ r.productGroupId = productGroupId
  /\ r.status = "active"

\* The filter of getActiveReservationsForGroup and of consumeReservationsForGroup.
IsEligible(r, productGroupId) ==
  /\ r.productGroupId = productGroupId
  /\ r.status = "active"
  /\ r.expiresAt > now

\* getActiveReservationsForGroup followed by a sort on reservedAt.
getActiveReservationsSorted(productGroupId) ==
  LET Active(r) == IsEligible(r, productGroupId)
      idxs == SortByReservedAt(reservations, FilterIndex(reservations, Active))
  IN [k \in 1..Len(idxs) |-> reservations[idxs[k]]]

getActiveReservationsForGroup(productGroupId) ==
  LET Active(r) == IsEligible(r, productGroupId)
      idxs == FilterIndex(reservations, Active)
  IN [k \in 1..Len(idxs) |-> reservations[idxs[k]]]

\* createReservation that stamps the record active, whatever the caller handed over.
NewReservationActive(reservationData) ==
  [reservationId |-> Len(reservations) + 1,
   productGroupId |-> reservationData.productGroupId,
   variantId |-> reservationData.variantId,
   reservedQuantity |-> reservationData.reservedQuantity,
   reservedAt |-> reservationData.reservedAt,
   expiresAt |-> reservationData.expiresAt,
   status |-> "active",
   consumedAt |-> -1]

\* createReservation: the caller's fields plus a fresh reservationId.
NewReservation(reservationData) ==
  [reservationId |-> Len(reservations) + 1,
   productGroupId |-> reservationData.productGroupId,
   variantId |-> reservationData.variantId,
   reservedQuantity |-> reservationData.reservedQuantity,
   reservedAt |-> reservationData.reservedAt,
   expiresAt |-> reservationData.expiresAt,
   status |-> reservationData.status,
   consumedAt |-> -1]

\* The loop of consumeReservationsForGroup from position i of the eligible list:
\* both branches of its if mark the record consumed and count its quantity.
RECURSIVE ConsumeLoop(_, _, _, _, _)
ConsumeLoop(allReservations, eligibleReservations, i, actualConsumedCount, consumedQuantity) ==
  IF i > Len(eligibleReservations) \/ actualConsumedCount >= consumedQuantity
  THEN [all |-> allReservations, count |-> actualConsumedCount]
  ELSE LET reservationToConsume == allReservations[eligibleReservations[i]]
           Same(r) == r.reservationId = reservationToConsume.reservationId
           originalReservationIndex == FirstIndex(allReservations, Same)
       IN IF originalReservationIndex = 0
          THEN ConsumeLoop(allReservations, eligibleReservations, i + 1,
                           actualConsumedCount, consumedQuantity)
          ELSE ConsumeLoop(
                 [allReservations EXCEPT ![originalReservationIndex].status = "consumed",
                                         ![originalReservationIndex].consumedAt = now],
                 eligibleReservations, i + 1,
                 actualConsumedCount + allReservations[originalReservationIndex].reservedQuantity,
                 consumedQuantity)

\* A consume that asks its loop for one unit more than it was asked for.
consumeOneMore(productGroupId, consumedQuantity) ==
  LET Eligible(r) == IsEligible(r, productGroupId)
      eligibleReservations ==
        SortByReservedAt(reservations, FilterIndex(reservations, Eligible))
  IN ConsumeLoop(reservations, eligibleReservations, 1, 0, consumedQuantity + 1)

consumeReservationsForGroup(productGroupId, consumedQuantity) ==
  LET Eligible(r) == IsEligible(r, productGroupId)
      eligibleReservations ==
        SortByReservedAt(reservations, FilterIndex(reservations, Eligible))
  IN ConsumeLoop(reservations, eligibleReservations, 1, 0, consumedQuantity)

\* ------------------------------------------------------------- ledger calls
GroupIds == {Str(100), Str(200)}

NoCall == [op |-> "none", productGroupId |-> Str(0), value |-> 0, error |-> "none"]

\* A caller of db.createReservation holds one unit or more of a group for the TTL.
CreateReservation(productGroupId, quantity) ==
  /\ Len(reservations) < MaxReservations
  /\ LET newReservation ==
           NewReservation([productGroupId |-> productGroupId,
                           variantId |-> Str(1),
                           reservedQuantity |-> quantity,
                           reservedAt |-> now,
                           expiresAt |-> now + ReservationTtl,
                           status |-> "active"])
     IN /\ reservations' = Append(reservations, newReservation)
        /\ returned' = [op |-> "create", productGroupId |-> productGroupId,
                        value |-> newReservation.reservationId, error |-> "none"]
  /\ UNCHANGED <<productGroups, catalog, req, last, now>>

\* createReservation stores the reservedAt its caller hands it, whatever the
\* order in which the records reach the file.
CreateReservationAt(productGroupId, quantity, reservedAt) ==
  /\ Len(reservations) < MaxReservations
  /\ LET newReservation ==
           NewReservation([productGroupId |-> productGroupId,
                           variantId |-> Str(1),
                           reservedQuantity |-> quantity,
                           reservedAt |-> reservedAt,
                           expiresAt |-> reservedAt + ReservationTtl,
                           status |-> "active"])
     IN /\ reservations' = Append(reservations, newReservation)
        /\ returned' = [op |-> "create", productGroupId |-> productGroupId,
                        value |-> newReservation.reservationId, error |-> "none"]
  /\ UNCHANGED <<productGroups, catalog, req, last, now>>

\* A caller of db.consumeReservationsForGroup.
ConsumeReservations(productGroupId, consumedQuantity) ==
  /\ LET done == consumeReservationsForGroup(productGroupId, consumedQuantity)
     IN /\ reservations' = done.all
        /\ returned' = [op |-> "consume", productGroupId |-> productGroupId,
                        value |-> done.count, error |-> "none"]
  /\ UNCHANGED <<productGroups, catalog, req, last, now>>

Tick ==
  /\ now < MaxTime
  /\ now' = now + 1
  /\ UNCHANGED <<productGroups, reservations, catalog, req, last, returned>>

\* ------------------------------------------------------------- inventoryService.js
\* What module.exports of inventoryService.js hands to webhookHandlers.js.
InventoryServiceExports == {"syncInventoryForItem", "handleCartAddition", "handleOrderLineItem"}

\* A fan-out that writes the level below the one it was given.
FanOutLevelShort(newInventoryLevel) == IF newInventoryLevel <= 1 THEN 0 ELSE newInventoryLevel - 1

\* syncInventoryForItem writes 0 to the catalog for a level <= 0, the level otherwise.
FanOutLevel(newInventoryLevel) == IF newInventoryLevel <= 0 THEN 0 ELSE newInventoryLevel

\* syncInventoryForItem up to its first catalog call: the registry it leaves.
SyncRegistry(inventoryItemId, newInventoryLevel) ==
  LET g == findProductGroupByInventoryItemId(inventoryItemId)
  IN IF g = 0 THEN productGroups
     ELSE updateProductGroupInventory(productGroups[g].id, newInventoryLevel)

\* ------------------------------------------------------------- requests
\* A request in flight: what its handler holds across its network calls.
\*   items  productGroup.inventoryItemIds of the group it resolved
\*   level  newInventoryLevel, the argument of syncInventoryForItem
\*   idx    the member the fan-out loop is at
\* and two fields the handler does not hold, kept for the properties:
\*   pre    sharedInventoryCount of the group when a cart addition arrived
\*   clean  no other request arrived while it ran, and no member was skipped
Idle == [kind |-> "idle", pc |-> "idle", items |-> << >>, level |-> 0, idx |-> 0,
         pre |-> 0, clean |-> TRUE]

NoResponse == [kind |-> "none", outcome |-> "none", clean |-> TRUE]

Slots == 1..MaxInFlight

OthersIdle(s) == \A t \in Slots \ {s} : req[t].pc = "idle"

\* Slots are interchangeable: a request takes the lowest free one.
Free(s) == req[s].pc = "idle" /\ \A t \in 1..(s - 1) : req[t].pc # "idle"

\* A request arriving in slot s disturbs every request in flight.
Disturb(s) ==
  [t \in Slots |-> IF t # s /\ req[t].pc # "idle" THEN [req[t] EXCEPT !.clean = FALSE] ELSE req[t]]

Arrive(s, kind, g) ==
  [Idle EXCEPT !.kind = kind,
               !.items = IF g = 0 THEN << >> ELSE productGroups[g].inventoryItemIds,
               !.pre = IF g # 0 /\ kind = "cart"
                       THEN productGroups[g].sharedInventoryCount ELSE 0,
               !.clean = OthersIdle(s)]

\* The request r of slot s answers its caller and leaves the slot.
Complete(base, s, r, outcome) ==
  /\ req' = [base EXCEPT ![s] = Idle]
  /\ last' = [kind |-> r.kind, outcome |-> outcome, clean |-> r.clean]

\* The request starts the fan-out of setAllVariantsInventory over r.items.
StartFanOut(base, s, r, inventoryLevel) ==
  /\ req' = [base EXCEPT ![s] = [r EXCEPT !.pc = "fanout", !.level = inventoryLevel, !.idx = 1]]
  /\ last' = last

\* What the caller is told, by kind of request and outcome.
ResponseOf(kind, outcome) ==
  IF kind = "cart"
  THEN CASE outcome = "ok" -> "success"
         [] outcome = "notFound" -> "Product not found"
         [] outcome = "noItem" -> "No inventory item found"
         [] outcome \in {"outOfStock", "readFailed"} -> "Out of stock"
         [] OTHER -> "Error processing cart addition"
  ELSE IF outcome \in {"ok", "notFound"} THEN "200" ELSE "500"

\* ------------------------------------------------------------- actions
\* POST /api/cart/add: handleCartAddition up to the catalog read.
CartAddStart(s, variantId) ==
  /\ Free(s)
  /\ LET g == findProductGroupByVariantId(variantId)
         r == Arrive(s, "cart", g)
     IN IF g = 0
        THEN Complete(Disturb(s), s, r, "notFound")
        ELSE IF Len(productGroups[g].inventoryItemIds) = 0
        THEN Complete(Disturb(s), s, r, "noItem")
        ELSE /\ req' = [Disturb(s) EXCEPT ![s] = [r EXCEPT !.pc = "read"]]
             /\ last' = last
  /\ UNCHANGED <<productGroups, reservations, catalog, now, returned>>

\* A level read that answers a failed query with one unit in stock.
getInventoryLevelOrOne(inventoryItemId, readOk) ==
  IF readOk THEN catalog[inventoryItemId[2]] ELSE 1

\* getInventoryLevel inside handleCartAddition: the available quantity of the
\* catalog, or 0 when the query fails (the catch logs and returns 0).
getInventoryLevelOrZero(inventoryItemId, readOk) ==
  IF readOk THEN catalog[inventoryItemId[2]] ELSE 0

\* handleCartAddition from the answer of getInventoryLevel to the first catalog write.
CartAddLevel(s, readOk) ==
  /\ req[s].pc = "read"
  /\ LET r == req[s]
         inventoryItemId == r.items[1]
         currentInventory == getInventoryLevelOrZero(inventoryItemId, readOk)
         g == findProductGroupByInventoryItemId(inventoryItemId)
     IN IF currentInventory <= 0
        THEN /\ Complete(req, s, r, IF readOk THEN "outOfStock" ELSE "readFailed")
             /\ UNCHANGED productGroups
        ELSE IF g = 0
        THEN /\ Complete(req, s, r, "ok")
             /\ UNCHANGED productGroups
        ELSE /\ productGroups' = SyncRegistry(inventoryItemId, currentInventory - 1)
             /\ StartFanOut(req, s, [r EXCEPT !.items = productGroups[g].inventoryItemIds],
                            currentInventory - 1)
  /\ UNCHANGED <<reservations, catalog, now, returned>>

\* One member of setAllVariantsInventory: updateShopifyInventory(inventoryItemId, level).
FanOutWrite(s, answer) ==
  /\ req[s].pc = "fanout"
  /\ LET r == req[s]
         inventoryItemId == r.items[r.idx]
         r2 == IF answer = "noLocation" THEN [r EXCEPT !.clean = FALSE] ELSE r
     IN /\ catalog' = IF answer = "ok"
                      THEN [catalog EXCEPT ![inventoryItemId[2]] = FanOutLevel(r.level)]
                      ELSE catalog
        /\ IF answer = "error"
           THEN Complete(req, s, r2, "writeFailed")
           ELSE IF r.idx = Len(r.items)
           THEN Complete(req, s, r2, "ok")
           ELSE /\ req' = [req EXCEPT ![s] = [r2 EXCEPT !.idx = r.idx + 1]]
                /\ last' = last
  /\ UNCHANGED <<productGroups, reservations, now, returned>>

\* POST /webhooks/order-create with one line item: handleOrderLineItem.
OrderCreate(s, variantId) ==
  /\ Free(s)
  /\ LET g == findProductGroupByVariantId(variantId)
         r == Arrive(s, "order", g)
     IN IF g = 0
        THEN /\ Complete(Disturb(s), s, r, "notFound")
             /\ UNCHANGED productGroups
        ELSE LET currentInventory == productGroups[g].sharedInventoryCount
                 newInventory == IF currentInventory - 1 > 0 THEN currentInventory - 1 ELSE 0
             IN /\ productGroups' = SyncRegistry(productGroups[g].inventoryItemIds[1], newInventory)
                /\ StartFanOut(Disturb(s), s, r, newInventory)
  /\ UNCHANGED <<reservations, catalog, now, returned>>

\* The level of an item changes in Shopify; the inventory-update webhook carries
\* it to handleInventoryUpdate -> syncInventoryForItem.
InventoryUpdate(s, inventoryItemId, newInventoryLevel) ==
  /\ Free(s)
  /\ catalog' = IF inventoryItemId[2] \in DOMAIN catalog
                THEN [catalog EXCEPT ![inventoryItemId[2]] = newInventoryLevel]
                ELSE catalog
  /\ LET g == findProductGroupByInventoryItemId(inventoryItemId)
         r == Arrive(s, "inv", g)
     IN IF g = 0
        THEN /\ Complete(Disturb(s), s, r, "notFound")
             /\ UNCHANGED productGroups
        ELSE /\ productGroups' = SyncRegistry(inventoryItemId, newInventoryLevel)
             /\ StartFanOut(Disturb(s), s, r, newInventoryLevel)
  /\ UNCHANGED <<reservations, now, returned>>

\* POST /webhooks/order-cancelled with one line item: handleOrderCancelled.
OrderCancelled(s, inventoryItemId, quantity) ==
  /\ Free(s)
  /\ quantity > 0
  /\ LET g == findProductGroupByInventoryItemId(inventoryItemId)
         r == Arrive(s, "cancel", g)
     IN IF g = 0
        THEN /\ Complete(Disturb(s), s, r, "notFound")
             /\ UNCHANGED productGroups
        ELSE LET newSharedInventoryCount == productGroups[g].sharedInventoryCount + quantity
             IN /\ newSharedInventoryCount <= MaxLevel
                /\ productGroups' = updateProductGroupInventory(productGroups[g].id,
                                                                 newSharedInventoryCount)
                /\ IF "setAllVariantsInventory" \in InventoryServiceExports
                   THEN StartFanOut(Disturb(s), s, r, newSharedInventoryCount)
                   ELSE Complete(Disturb(s), s, r, "notExported")
  /\ UNCHANGED <<reservations, catalog, now, returned>>

\* ------------------------------------------------------------- specification
Levels == 0..MaxLevel
WebhookLevels == (-1)..MaxLevel

\* The registry as scanAllProducts leaves it: one group per multi-variant product,
\* its count read from the catalog quantity of the product's first inventory item.
InitialGroups(c) ==
  << [id |-> Str(100), title |-> "Test Artwork",
      variantIds |-> <<Str(1), Str(2)>>,
      inventoryItemIds |-> <<Str(1), Str(2)>>,
      sharedInventoryCount |-> c[1]] >>

Init ==
  /\ catalog \in [GroupedNums -> Levels]
  /\ productGroups = InitialGroups(catalog)
  /\ reservations = << >>
  /\ req = [s \in Slots |-> Idle]
  /\ last = NoResponse
  /\ now = 0
  /\ returned = NoCall

Next ==
  \/ \E s \in Slots, n \in AllNums : CartAddStart(s, Str(n))
  \/ \E s \in Slots, readOk \in BOOLEAN : CartAddLevel(s, readOk)
  \/ \E s \in Slots, outcome \in {"ok", "noLocation", "error"} : FanOutWrite(s, outcome)
  \/ \E s \in Slots, n \in AllNums : OrderCreate(s, Num(n))
  \/ \E s \in Slots, n \in AllNums, l \in WebhookLevels : InventoryUpdate(s, Num(n), l)
  \/ \E s \in Slots, n \in AllNums, q \in 1..MaxLevel : OrderCancelled(s, Num(n), q)

Spec == Init /\ [][Next]_vars

\* One request at a time: the next arrives when the one before has answered.
SeqNext ==
  \/ \E n \in AllNums : CartAddStart(1, Str(n))
  \/ \E readOk \in BOOLEAN : CartAddLevel(1, readOk)
  \/ \E answer \in {"ok", "noLocation", "error"} : FanOutWrite(1, answer)
  \/ \E n \in AllNums : OrderCreate(1, Num(n))
  \/ \E n \in AllNums, l \in WebhookLevels : InventoryUpdate(1, Num(n), l)
  \/ \E n \in AllNums, q \in 1..MaxLevel : OrderCancelled(1, Num(n), q)

SeqSpec == Init /\ [][SeqNext]_vars

\* The ledger functions of db.js under arbitrary callers and a running clock.
LedgerNext ==
  \/ \E g \in GroupIds, q \in 1..MaxQuantity : CreateReservation(g, q)
  \/ \E g \in GroupIds, q \in 1..MaxQuantity : ConsumeReservations(g, q)
  \/ Tick

\* The ledger is exercised beside a registry at rest.
LedgerInit == Init /\ \A n \in GroupedNums : catalog[n] = 0

LedgerSpec == LedgerInit /\ [][LedgerNext]_vars

\* ------------------------------------------------------------- productService.js
ProductNum == 100
Titles == {"Test Artwork", "Renamed Artwork"}
\* The variants a product may have, as numbers; variant n has inventory item n.
Memberships == {<<1>>, <<1, 2>>}

\* A product as its source hands it over: type "str" from the GraphQL scan and
\* from getProduct (ids cut out of gid strings), type "num" from a webhook
\* payload (JSON numbers).  hasVariants: the payload carries a variants array.
Product(type, title, members, hasVariants) ==
  [id |-> <<type, ProductNum>>,
   title |-> title,
   variants |-> [k \in 1..Len(members) |->
                   [id |-> <<type, members[k]>>, inventory_item_id |-> <<type, members[k]>>]],
   hasVariants |-> hasVariants]

\* getInventoryLevel of productService.js: the quantity the catalog holds.
getInventoryLevel(inventoryItemId) == catalog[inventoryItemId[2]]

\* The group both functions build from a product, under the id and count given.
GroupFrom(id, product, inventoryLevel) ==
  [id |-> id,
   title |-> product.title,
   variantIds |-> [k \in 1..Len(product.variants) |-> product.variants[k].id],
   inventoryItemIds |-> [k \in 1..Len(product.variants) |->
                           product.variants[k].inventory_item_id],
   sharedInventoryCount |-> inventoryLevel]

\* createProductGroup: the registry it leaves.
createProductGroup(product) ==
  IF ~product.hasVariants \/ Len(product.variants) <= 1
  THEN productGroups
  ELSE saveProductGroup(
         GroupFrom(product.id, product,
                   getInventoryLevel(product.variants[1].inventory_item_id)))

\* updateProductGroup: the registry it leaves; fetched is what getProduct
\* answers when the payload carries no variants.
updateProductGroup(productId, productData, fetched) ==
  LET product == IF productData.hasVariants THEN productData ELSE fetched
  IN IF Len(product.variants) <= 1
     THEN removeProductGroup(productId)
     ELSE LET existingGroup == getProductGroup(productId)
              inventoryLevel ==
                IF existingGroup > 0
                THEN productGroups[existingGroup].sharedInventoryCount
                ELSE getInventoryLevel(product.variants[1].inventory_item_id)
          IN saveProductGroup(GroupFrom(productId, product, inventoryLevel))

\* scanAllProducts at a start of the server, for the product Shopify holds.
ScanAllProducts(title, members) ==
  /\ productGroups' = createProductGroup(Product("str", title, members, TRUE))
  /\ UNCHANGED <<reservations, catalog, req, last, now, returned>>

\* POST /webhooks/product-create: handleProductCreate.
ProductCreate(title, members) ==
  /\ productGroups' = createProductGroup(Product("num", title, members, TRUE))
  /\ UNCHANGED <<reservations, catalog, req, last, now, returned>>

\* POST /webhooks/product-update: handleProductUpdate.
ProductUpdate(title, members, hasVariants) ==
  /\ productGroups' = updateProductGroup(Num(ProductNum),
                                         Product("num", title, members, hasVariants),
                                         Product("str", title, members, TRUE))
  /\ UNCHANGED <<reservations, catalog, req, last, now, returned>>

\* A direct caller of db.updateProductGroupInventory, as test.js is: the call
\* returns the updated group (value 1) or null (value 0) and throws nothing.
CallerIds == {Str(ProductNum), Num(ProductNum), Str(200)}

SetSharedCount(productGroupId, newSharedInventoryCount) ==
  /\ productGroups' = updateProductGroupInventory(productGroupId, newSharedInventoryCount)
  /\ returned' = [op |-> "update", productGroupId |-> productGroupId,
                  value |-> IF GroupIndexById(productGroupId) > 0 THEN 1 ELSE 0,
                  error |-> "none"]
  /\ UNCHANGED <<reservations, catalog, req, last, now>>

\* A write of the registry by the product service.
RegistryWrite ==
  \/ \E title \in Titles, members \in Memberships : ScanAllProducts(title, members)
  \/ \E title \in Titles, members \in Memberships : ProductCreate(title, members)
  \/ \E title \in Titles, members \in Memberships, hasVariants \in BOOLEAN :
       ProductUpdate(title, members, hasVariants)

\* The registry under product events, restarts and cancelled orders.
RegistryNext ==
  \/ RegistryWrite
  \/ \E n \in GroupedNums, q \in 1..MaxLevel : OrderCancelled(1, Num(n), q)
  \/ \E id \in CallerIds, l \in Levels : SetSharedCount(id, l)

RegistrySpec == Init /\ [][RegistryNext]_vars

\* consumeReservationsForGroup over a ledger whose file order is not its
\* reservedAt order.
ConsumeNext ==
  \/ \E g \in GroupIds, q \in 1..MaxQuantity, at \in 0..MaxStamp : CreateReservationAt(g, q, at)
  \/ \E g \in GroupIds, q \in 1..MaxQuantity : ConsumeReservations(g, q)

ConsumeSpec == LedgerInit /\ [][ConsumeNext]_vars

\* Abandoned carts: shoppers keep adding to carts, no order ever arrives, and
\* the clock runs.  The server answers every request it has accepted.
AbandonNext ==
  \/ \E n \in AllNums : CartAddStart(1, Str(n))
  \/ \E readOk \in BOOLEAN : CartAddLevel(1, readOk)
  \/ \E answer \in {"ok", "noLocation", "error"} : FanOutWrite(1, answer)
  \/ Tick

AbandonFairness ==
  /\ WF_vars(Tick)
  /\ WF_vars(\E n \in AllNums : CartAddStart(1, Str(n)))
  /\ WF_vars(\E readOk \in BOOLEAN : CartAddLevel(1, readOk))
  /\ WF_vars(\E answer \in {"ok", "noLocation", "error"} : FanOutWrite(1, answer))

AbandonSpec == Init /\ [][AbandonNext]_vars /\ AbandonFairness

\* ------------------------------------------------------------- vocabulary of the properties
Groups == 1..Len(productGroups)
SharedCount(g) == productGroups[g].sharedInventoryCount
GroupOf(r) == findProductGroupByInventoryItemId(r.items[1])

\* Every member of group g shows the group's count in the catalog.
Synced(g) ==
  \A k \in 1..Len(productGroups[g].inventoryItemIds) :
    catalog[productGroups[g].inventoryItemIds[k][2]] = SharedCount(g)

\* The request of slot s answers its caller in this step.
Completes(s) == req[s].pc # "idle" /\ req'[s].pc = "idle"

\* The request of slot s met no catalog fault: no failed read, no failed or skipped write.
Faultless(s) == last'.clean /\ last'.outcome \notin {"readFailed", "writeFailed"}

\* A hold: a cart addition that has passed the availability check.
Holding(s) == req[s].kind = "cart" /\ req[s].pc = "fanout"

\* ------------------------------------------------------------- C1
\* C1: from a group whose sharedCount is N, at most N consecutive cart-add holds
\* succeed and the next is rejected as out of stock: a hold that runs alone
\* succeeds only when the stored count was at least 1 on its arrival, and is
\* answered "Out of stock" when the stored count was 0 or less.
C1_AtMostNHolds ==
  [][\A s \in Slots :
       (Completes(s) /\ req[s].kind = "cart" /\ Faultless(s))
         => /\ (last'.outcome = "ok" => req[s].pre >= 1)
            /\ (req[s].pre <= 0 => ResponseOf("cart", last'.outcome) = "Out of stock")]_vars

\* ------------------------------------------------------------- C2
\* C2: two concurrent cart-add holds on one group never both pass the
\* availability check on the last unit: no two holds of a group are between
\* their check and their answer at once, each having seen exactly one unit.
C2_CheckThenDecrementAtomic ==
  \A s, t \in Slots :
    (s # t /\ Holding(s) /\ Holding(t) /\ GroupOf(req[s]) = GroupOf(req[t]))
      => ~(req[s].level = 0 /\ req[t].level = 0)

\* ------------------------------------------------------------- C3
\* C3: when an inventory change, a cart-add hold, an order confirmation or an
\* order cancellation completes on a group without a catalog fault, every member
\* of the group shows one and the same quantity, the group's sharedCount.
C3_SiblingsShowSharedCount ==
  [][/\ \A s \in Slots :
          (Completes(s) /\ Faultless(s) /\ last'.outcome = "ok")
            => \A g \in Groups : g = GroupOf(req[s]) => Synced(g)'
     /\ \A s \in Slots, n \in GroupedNums, q \in 1..MaxLevel :
          OrderCancelled(s, Num(n), q)
            => \A g \in Groups : g = findProductGroupByInventoryItemId(Num(n)) => Synced(g)'
    ]_vars

\* ------------------------------------------------------------- C4
\* C4: the sharedCount stored for a group is never negative.
C4_SharedCountNonNegative == \A g \in Groups : SharedCount(g) >= 0

C6_ReleaseThenHold ==
  [][/\ \A s \in Slots, n \in GroupedNums :
          (OrderCancelled(s, Num(n), 1) /\ SharedCount(1) = 0) => SharedCount(1)' = 1
     /\ \A s \in Slots :
          (Completes(s) /\ req[s].kind = "cart" /\ Faultless(s)
             /\ last.kind = "cancel" /\ last.outcome # "notFound" /\ req[s].pre = 1)
            => last'.outcome = "ok"
    ]_vars

\* ------------------------------------------------------------- C7
\* C7: a cart-add hold that runs alone and succeeds leaves the stored
\* sharedCount at exactly its value on arrival minus 1.
C7_HoldDecrementsByOne ==
  [][\A s \in Slots :
       (Completes(s) /\ req[s].kind = "cart" /\ Faultless(s) /\ last'.outcome = "ok")
         => \A g \in Groups : g = GroupOf(req[s]) => SharedCount(g)' = req[s].pre - 1]_vars

\* ------------------------------------------------------------- C8
\* C8: a unit taken off the count by a hold has its reservation in the ledger:
\* while a hold is past its decrement, and once it has succeeded, the ledger
\* holds an active reservation of its group.
C8_HoldHasReservation ==
  \A s \in Slots :
    Holding(s) =>
      \E i \in 1..Len(reservations) :
        /\ reservations[i].productGroupId = productGroups[GroupOf(req[s])].id
        /\ reservations[i].status = "active"

\* ------------------------------------------------------------- C9
Ledger == 1..Len(reservations)

\* Group productGroupId has reservations and every one of them is terminal.
AllTerminal(productGroupId) ==
  /\ \E i \in Ledger : reservations[i].productGroupId = productGroupId
  /\ \A i \in Ledger :
       reservations[i].productGroupId = productGroupId => reservations[i].status # "active"

ExpiresStale(i) ==
  /\ reservations'[i].status = "expired"
  /\ \A g \in Groups :
       productGroups[g].id = reservations[i].productGroupId
         => productGroups'[g].sharedInventoryCount
              = productGroups[g].sharedInventoryCount + reservations[i].reservedQuantity

\* C10: an active reservation whose expiresAt has passed can be expired: some
\* operation of the program sets its status to expired and raises the group's
\* sharedCount by exactly its reservedQuantity.
C10_StaleReservationExpires ==
  \A i \in Ledger :
    (reservations[i].status = "active" /\ reservations[i].expiresAt <= now)
      => ENABLED ((Next \/ LedgerNext) /\ ExpiresStale(i))

\* ------------------------------------------------------------- C11
\* C11: a cart-add hold that no order confirms is eventually returned to the
\* pool: when a hold made at time 0 has taken the group's count to 0, then, as
\* the clock passes the TTL and cart requests keep being processed, the count
\* is raised back to at least 1.
C11_AbandonedHoldReturns ==
  (now = 0 /\ last.kind = "cart" /\ last.outcome = "ok" /\ SharedCount(1) = 0)
    ~> (now >= ReservationTtl /\ SharedCount(1) >= 1)

\* ------------------------------------------------------------- C12
\* Reservation i is eligible for a consume of its group and older than j.
OlderEligible(i, j) ==
  /\ reservations[i].productGroupId = reservations[j].productGroupId
  /\ IsEligible(reservations[i], reservations[i].productGroupId)
  /\ IsEligible(reservations[j], reservations[j].productGroupId)
  /\ reservations[i].reservedAt < reservations[j].reservedAt

\* C12: consume marks reservations consumed in ascending reservedAt order: no
\* step consumes a reservation while an older eligible reservation of the same
\* group is left active.
C12_ConsumesOldestFirst ==
  [][\A i, j \in Ledger :
       (OlderEligible(i, j) /\ reservations'[j].status = "consumed")
         => reservations'[i].status = "consumed"]_vars

\* The last call consumed the older of two reservations of one group and left
\* the newer one, which precedes it in the file, active.
C12_Witness ==
  \E i, j \in Ledger :
    /\ j < i
    /\ reservations[i].productGroupId = reservations[j].productGroupId
    /\ reservations[i].reservedAt < reservations[j].reservedAt
    /\ reservations[i].status = "consumed"
    /\ reservations[j].status = "active"
    /\ returned.op = "consume"
    /\ returned.productGroupId = reservations[i].productGroupId
    /\ returned.value >= 1

\* ------------------------------------------------------------- C13
RECURSIVE SumQuantity(_)
SumQuantity(S) ==
  IF S = {} THEN 0
  ELSE LET i == CHOOSE k \in S : TRUE
       IN reservations[i].reservedQuantity + SumQuantity(S \ {i})

\* The reservations this step marks consumed.
Marked == {i \in Ledger : reservations[i].status = "active" /\ reservations'[i].status = "consumed"}

\* The record of S that the loop reaches last: the latest reservedAt, and among
\* equal ones the last in the file.
IsLastOf(i, S) ==
  /\ i \in S
  /\ \A j \in S \ {i} :
       \/ reservations[j].reservedAt < reservations[i].reservedAt
       \/ reservations[j].reservedAt = reservations[i].reservedAt /\ j < i

C14_CancellationRestocks ==
  [][\A s \in Slots, n \in GroupedNums, q \in 1..MaxLevel :
       OrderCancelled(s, Num(n), q)
         => /\ SharedCount(1)' = SharedCount(1) + q
            /\ req'[s].pc = "fanout"
            /\ req'[s].level = SharedCount(1) + q
            /\ req'[s].items = productGroups[1].inventoryItemIds
    ]_vars

\* ------------------------------------------------------------- C15
\* C15: a failed catalog write for one member does not stop the fan-out: when
\* the write for a member that is not the last one fails, the request stays in
\* the fan-out and attempts the next member.
C15_FanOutSurvivesFailure ==
  [][\A s \in Slots :
       (FanOutWrite(s, "error") /\ req[s].idx < Len(req[s].items))
         => /\ req'[s].pc = "fanout"
            /\ req'[s].idx = req[s].idx + 1
    ]_vars

\* ------------------------------------------------------------- C16
\* C16: after any startup scan, product-create or product-update event the
\* registry holds no group with fewer than 2 members, and a product update
\* whose member list has shrunk to 1 entry removes the group: a lookup by a
\* former member, by variant or by inventory item, then finds nothing.
C16_NoSmallGroups ==
  [][/\ \A g \in 1..Len(productGroups') : Len(productGroups'[g].variantIds) >= 2
     /\ \A title \in Titles, hasVariants \in BOOLEAN, n \in GroupedNums :
          (ProductUpdate(title, <<1>>, hasVariants)
             /\ findProductGroupByVariantId(Num(n)) # 0)
            => /\ findProductGroupByVariantId(Num(n))' = 0
               /\ findProductGroupByInventoryItemId(Num(n))' = 0
    ]_vars

\* ------------------------------------------------------------- C17
\* C17: a registry write by a product update, a product create or a startup
\* scan leaves the sharedCount of every group that already existed, and still
\* exists under the same id, unchanged.
C17_WritePreservesCount ==
  [][RegistryWrite
       => \A i \in Groups, j \in 1..Len(productGroups') :
            productGroups'[j].id = productGroups[i].id
              => productGroups'[j].sharedInventoryCount = SharedCount(i)
    ]_vars

\* ------------------------------------------------------------- C18
\* C18: each variant identifier, and each inventory-item identifier, is a
\* member of at most one group of the registry.
C18_OneGroupPerVariant ==
  \A g, h \in Groups :
    g # h =>
      /\ \A k \in 1..Len(productGroups[g].variantIds) :
           ~Includes(productGroups[h].variantIds, productGroups[g].variantIds[k])
      /\ \A k \in 1..Len(productGroups[g].inventoryItemIds) :
           ~Includes(productGroups[h].inventoryItemIds, productGroups[g].inventoryItemIds[k])

\* ------------------------------------------------------------- C19
\* The call changes the count of group g to value and nothing else.
OnlyCountReplaced(g, value) ==
  /\ Len(productGroups') = Len(productGroups)
  /\ productGroups'[g] = [productGroups[g] EXCEPT !.sharedInventoryCount = value]
  /\ \A h \in Groups \ {g} : productGroups'[h] = productGroups[h]

C20_UngroupedChangeIsNoOp ==
  [][\A s \in Slots, l \in WebhookLevels :
       InventoryUpdate(s, Num(UngroupedNum), l)
         => /\ productGroups' = productGroups
            /\ catalog' = catalog
            /\ req'[s].pc = "idle"
            /\ last'.kind = "inv" /\ last'.outcome = "notFound"
    ]_vars

\* An inventory change of an ungrouped item has just been answered, beside a
\* group that has stock.
C20_Witness ==
  /\ last.kind = "inv"
  /\ last.outcome = "notFound"
  /\ SharedCount(1) >= 1
  /\ \A s \in Slots : req[s].pc = "idle"

\* ------------------------------------------------------------- storefront
\* cart-monitor.js handleAddToCart: the intercepted add-to-cart goes on to Shopify
\* only when the app answers success; any other answer is shown to the shopper as
\* an error and the add stays prevented.
handleAddToCart(response) ==
  IF response = "success" THEN "submit" ELSE "showErrorMessage"

\* C21: a cart-add for a variant that belongs to no group changes no state and is
\* not presented to the shopper as a failure: the add-to-cart goes through.
C21_UngroupedCartAddPasses ==
  [][\A s \in Slots :
       CartAddStart(s, Str(UngroupedNum))
         => /\ productGroups' = productGroups
            /\ catalog' = catalog
            /\ reservations' = reservations
            /\ handleAddToCart(ResponseOf("cart", last'.outcome)) = "submit"]_vars

\* ------------------------------------------------------------- C22
\* C22: a registry mutation that was acknowledged is durable: when the server
\* stops and starts again (initializeApp runs scanAllProducts over the file the
\* mutation wrote), every group is still in the registry with the sharedCount
\* it had before the stop.
C22_RestartKeepsRegistry ==
  [][\A title \in Titles, members \in Memberships :
       (ScanAllProducts(title, members)
          /\ returned.op = "update" /\ returned.value = 1)
         => \A i \in Groups :
              \E j \in 1..Len(productGroups') :
                /\ productGroups'[j].id = productGroups[i].id
                /\ productGroups'[j].sharedInventoryCount = SharedCount(i)
    ]_vars

\* ------------------------------------------------------------- db.js, file faults
\* readReservationsFromFile / readProductGroupsFromFile: the parsed file, or the
\* empty array when the file cannot be read or parsed (the error is only logged).
readReservationsFromFile(readOk) == IF readOk THEN reservations ELSE << >>

readProductGroupsFromFile(readOk) == IF readOk THEN productGroups ELSE << >>

\* writeReservationsToFile / writeProductGroupsToFile: the file after the call;
\* a failing writeFileSync is caught and logged, and the file keeps what it held.
writeToFile(held, data, writeOk) == IF writeOk THEN data ELSE held

\* The reservationId of createReservation: one that no stored record carries.
FreshReservationId ==
  CHOOSE n \in 1..(Len(reservations) + 1) :
    /\ \A i \in 1..Len(reservations) : reservations[i].reservationId # n
    /\ \A m \in 1..(n - 1) : \E i \in 1..Len(reservations) : reservations[i].reservationId = m

\* db.createReservation over a file that may fail to be read or written.
CreateReservationOnStore(productGroupId, quantity, readOk, writeOk) ==
  /\ Len(reservations) < MaxReservations
  /\ LET stored == readReservationsFromFile(readOk)
         newReservation ==
           [NewReservation([productGroupId |-> productGroupId,
                            variantId |-> Str(1),
                            reservedQuantity |-> quantity,
                            reservedAt |-> now,
                            expiresAt |-> now + ReservationTtl,
                            status |-> "active"])
              EXCEPT !.reservationId = FreshReservationId]
     IN /\ reservations' = writeToFile(reservations, Append(stored, newReservation), writeOk)
        /\ returned' = [op |-> "create", productGroupId |-> productGroupId,
                        value |-> newReservation.reservationId, error |-> "none"]
  /\ UNCHANGED <<productGroups, catalog, req, last, now>>

\* db.consumeReservationsForGroup over such a file: an unreadable file is an
\* empty ledger, nothing is eligible and nothing is written.
ConsumeReservationsOnStore(productGroupId, consumedQuantity, readOk, writeOk) ==
  /\ LET done == IF readOk
                 THEN consumeReservationsForGroup(productGroupId, consumedQuantity)
                 ELSE [all |-> << >>, count |-> 0]
         reservationsChanged == done.count > 0
     IN /\ reservations' = IF reservationsChanged
                           THEN writeToFile(reservations, done.all, writeOk)
                           ELSE reservations
        /\ returned' = [op |-> "consume", productGroupId |-> productGroupId,
                        value |-> done.count, error |-> "none"]
  /\ UNCHANGED <<productGroups, catalog, req, last, now>>

\* db.updateProductGroupInventory over such a file: it returns the group it
\* changed in memory (value 1) whether or not the write reached the file.
SetSharedCountOnStore(productGroupId, newSharedInventoryCount, readOk, writeOk) ==
  /\ LET groups == readProductGroupsFromFile(readOk)
         Named(g) == g.id = productGroupId
         groupIndex == FirstIndex(groups, Named)
     IN /\ productGroups' =
             IF groupIndex > 0
             THEN writeToFile(productGroups,
                              [groups EXCEPT ![groupIndex].sharedInventoryCount =
                                               newSharedInventoryCount],
                              writeOk)
             ELSE productGroups
        /\ returned' = [op |-> "update", productGroupId |-> productGroupId,
                        value |-> IF groupIndex > 0 THEN 1 ELSE 0,
                        error |-> "none"]
  /\ UNCHANGED <<reservations, catalog, req, last, now>>

\* The groups a caller may save: the scanned product under a count, or a second
\* product with members of its own.
SavableGroups ==
  {InitialGroups([n \in GroupedNums |-> c])[1] : c \in Levels}
    \cup {[id |-> Str(200), title |-> "Other Artwork",
           variantIds |-> <<Str(3), Str(4)>>,
           inventoryItemIds |-> <<Str(3), Str(4)>>,
           sharedInventoryCount |-> c] : c \in Levels}

\* db.saveProductGroup over such a file: the group replaces the stored one of
\* its id, or is pushed onto what was read, and the array is written back.
SaveProductGroupOnStore(productGroup, readOk, writeOk) ==
  /\ LET groups == readProductGroupsFromFile(readOk)
         Named(g) == g.id = productGroup.id
         groupIndex == FirstIndex(groups, Named)
         saved == IF groupIndex > 0
                  THEN [groups EXCEPT ![groupIndex] = productGroup]
                  ELSE Append(groups, productGroup)
     IN productGroups' = writeToFile(productGroups, saved, writeOk)
  /\ returned' = [op |-> "save", productGroupId |-> productGroup.id,
                  value |-> 1, error |-> "none"]
  /\ UNCHANGED <<reservations, catalog, req, last, now>>

\* db.removeProductGroup over such a file: it writes only when the filter
\* dropped a group, and returns whether it did (value 1 / 0).
RemoveProductGroupOnStore(productId, readOk, writeOk) ==
  /\ LET groups == readProductGroupsFromFile(readOk)
         updatedGroups == SelectSeq(groups, LAMBDA g : g.id # productId)
         removed == Len(groups) # Len(updatedGroups)
     IN /\ productGroups' = IF removed
                            THEN writeToFile(productGroups, updatedGroups, writeOk)
                            ELSE productGroups
        /\ returned' = [op |-> "remove", productGroupId |-> productId,
                        value |-> IF removed THEN 1 ELSE 0, error |-> "none"]
  /\ UNCHANGED <<reservations, catalog, req, last, now>>

StoreFaultNext ==
  \/ \E g \in GroupIds, q \in 1..MaxQuantity, readOk \in BOOLEAN, writeOk \in BOOLEAN :
       CreateReservationOnStore(g, q, readOk, writeOk)
  \/ \E g \in GroupIds, q \in 1..MaxQuantity, readOk \in BOOLEAN, writeOk \in BOOLEAN :
       ConsumeReservationsOnStore(g, q, readOk, writeOk)
  \/ \E id \in CallerIds, l \in Levels, readOk \in BOOLEAN, writeOk \in BOOLEAN :
       SetSharedCountOnStore(id, l, readOk, writeOk)

\* The registry and the ledger over files whose reads and writes may fail.
StoreFaultSpec == LedgerInit /\ [][StoreFaultNext]_vars

RegistryFaultNext ==
  \/ \E id \in CallerIds, l \in Levels, readOk \in BOOLEAN, writeOk \in BOOLEAN :
       SetSharedCountOnStore(id, l, readOk, writeOk)
  \/ \E productGroup \in SavableGroups, readOk \in BOOLEAN, writeOk \in BOOLEAN :
       SaveProductGroupOnStore(productGroup, readOk, writeOk)
  \/ \E id \in CallerIds, readOk \in BOOLEAN, writeOk \in BOOLEAN :
       RemoveProductGroupOnStore(id, readOk, writeOk)

\* The registry alone over a file whose reads and writes may fail.
RegistryFaultSpec == LedgerInit /\ [][RegistryFaultNext]_vars

\* ------------------------------------------------------------- C23
\* C23: when the write of a registry or ledger mutation fails, the operation
\* reports an error to its caller and the stored state is the one before the
\* operation: the failure is never swallowed and reported as success.
C23_FailedWriteIsReported ==
  [][/\ \A id \in CallerIds, l \in Levels :
          (SetSharedCountOnStore(id, l, TRUE, FALSE) /\ GroupIndexById(id) > 0)
            => (returned'.error # "none" /\ productGroups' = productGroups)
     /\ \A g \in GroupIds, q \in 1..MaxQuantity :
          CreateReservationOnStore(g, q, TRUE, FALSE)
            => (returned'.error # "none" /\ reservations' = reservations)
    ]_vars

\* ------------------------------------------------------------- C24
\* C24: the ledger only grows: no append and no consume, including one whose
\* read of the store fails, removes a record that was stored before it.
C24_LedgerOnlyGrows ==
  [][\A i \in Ledger :
       \E j \in 1..Len(reservations') :
         reservations'[j].reservationId = reservations[i].reservationId
    ]_vars

\* ------------------------------------------------------------- db.js, direct callers
\* What a caller may hand to db.createReservation: the function takes the whole
\* record (group, variant, quantity, both timestamps and the status) from it.
\* The quantity is 1, as "the current cart logic" of db.js assumes.
CallerData ==
  [productGroupId : GroupIds,
   variantId : {Str(1)},
   reservedQuantity : {1},
   reservedAt : 0..MaxStamp,
   expiresAt : {0, ReservationTtl},
   status : {"active", "consumed"}]

\* A caller of db.createReservation with a record of its own making.
CreateReservationWith(reservationData) ==
  /\ Len(reservations) < MaxReservations
  /\ LET newReservation == NewReservation(reservationData)
     IN /\ reservations' = Append(reservations, newReservation)
        /\ returned' = [op |-> "create", productGroupId |-> reservationData.productGroupId,
                        value |-> newReservation.reservationId, error |-> "none"]
  /\ UNCHANGED <<productGroups, catalog, req, last, now>>

\* A caller of db.getActiveReservationsForGroup: the array it is handed.
ListActive(productGroupId) ==
  /\ LET list == getActiveReservationsForGroup(productGroupId)
     IN returned' = [op |-> "list", productGroupId |-> productGroupId,
                     value |-> Len(list), error |-> "none", list |-> list]
  /\ UNCHANGED <<productGroups, reservations, catalog, req, last, now>>

AppendNext ==
  \/ \E reservationData \in CallerData : CreateReservationWith(reservationData)
  \/ \E g \in GroupIds : ListActive(g)

\* The ledger under callers that make their own records and list them.
AppendSpec == LedgerInit /\ [][AppendNext]_vars

\* The fields of a stored record that its caller handed over.
DataOf(r) ==
  [productGroupId |-> r.productGroupId, variantId |-> r.variantId,
   reservedQuantity |-> r.reservedQuantity, reservedAt |-> r.reservedAt,
   expiresAt |-> r.expiresAt, status |-> r.status]

\* The step adds one record at the end and leaves the records before it alone.
AppendsOne ==
  /\ Len(reservations') = Len(reservations) + 1
  /\ \A i \in Ledger : reservations'[i] = reservations[i]

ActiveOf(g) ==
  {i \in Ledger : /\ reservations[i].productGroupId = g
                  /\ reservations[i].status = "active"
                  /\ reservations[i].expiresAt > now}

\* The array handed back holds exactly the records of ActiveOf(g), each once.
ListsExactly(list, g) ==
  /\ Len(list) = Cardinality(ActiveOf(g))
  /\ \A i \in ActiveOf(g) : \E k \in 1..Len(list) : list[k] = reservations[i]
  /\ \A k \in 1..Len(list) : \E i \in ActiveOf(g) : list[k] = reservations[i]

\* The position in the file of the record r.
PositionOf(r) == CHOOSE i \in Ledger : reservations[i].reservationId = r.reservationId

C27_FailedFanOutHealsOnNextSync ==
  [][\A s \in Slots :
       /\ FanOutWrite(s, "error")
            => \A g \in Groups : g = GroupOf(req[s]) => SharedCount(g)' = req[s].level
       /\ (last.outcome = "writeFailed"
             /\ Completes(s) /\ Faultless(s) /\ last'.outcome = "ok")
            => \A g \in Groups : g = GroupOf(req[s]) => Synced(g)'
    ]_vars

\* ------------------------------------------------------------- C28
\* C28: when the read of the available quantity fails during a cart-add, the
\* sharedCount and the catalog quantity of every member are left unchanged.
C28_FailedReadChangesNothing ==
  [][\A s \in Slots :
       CartAddLevel(s, FALSE)
         => /\ productGroups' = productGroups
            /\ catalog' = catalog
            /\ req'[s].pc = "idle"
    ]_vars

\* A cart-add whose level read failed has just been answered, for a group that
\* had stock to take in the registry and in the catalog.
C28_Witness ==
  /\ last.kind = "cart"
  /\ last.outcome = "readFailed"
  /\ SharedCount(1) >= 1
  /\ catalog[1] >= 1
  /\ \A s \in Slots : req[s].pc = "idle"

\* ------------------------------------------------------------- C29
\* C29: two operations that change the count of the same group take effect in
\* some serial order, so no update is lost: a cart-add that arrived when the
\* registry and the catalog agreed, and that succeeds while the registry holds
\* a unit, takes its unit from the count the registry holds at that moment,
\* whatever another request (a cancellation restocking q, an order confirmation
\* taking 1) has written since its arrival.
C29_NoLostUpdate ==
  [][\A s \in Slots :
       (CartAddLevel(s, TRUE) /\ req'[s].pc = "fanout"
          /\ catalog[req[s].items[1][2]] = req[s].pre)
         => \A g \in Groups :
              (g = GroupOf(req[s]) /\ SharedCount(g) >= 1)
                => SharedCount(g)' = SharedCount(g) - 1
    ]_vars

\* ------------------------------------------------------------- C30
\* C30: after a customer has successfully added one variation of a product to
\* the cart, an attempt to add any other variation of the same product is
\* rejected as out of stock.  Read for a product of one unit: when the add
\* before was answered success and left the group's sharedCount at 0, the
\* cart-add that follows it, its level read answered, gets "Out of stock".
C30_SecondVariationRejected ==
  [][\A s \in Slots :
       (last.kind = "cart" /\ last.outcome = "ok"
          /\ CartAddLevel(s, TRUE)
          /\ \A g \in Groups : g = GroupOf(req[s]) => SharedCount(g) = 0)
         => /\ req'[s].pc = "idle"
            /\ ResponseOf("cart", last'.outcome) = "Out of stock"
    ]_vars

\* ------------------------------------------------------------- C31
\* C31: after a group is saved, the lookup by variant of each of its member
\* variant ids and the lookup by inventory item of each of its member
\* inventory-item ids return that group, and the lookups of an identifier that
\* is in no saved group return not-found.
C31_SavedGroupIsFound ==
  [][/\ \A title \in Titles, members \in Memberships :
          (ProductCreate(title, members) /\ Len(members) > 1)
            => \A k \in 1..Len(members) :
                 LET byVariant == findProductGroupByVariantId(Num(members[k]))'
                     byItem == findProductGroupByInventoryItemId(Num(members[k]))'
                 IN /\ byVariant # 0
                    /\ byItem # 0
                    /\ productGroups'[byVariant].id = Num(ProductNum)
                    /\ productGroups'[byItem].id = Num(ProductNum)
     /\ findProductGroupByVariantId(Num(UngroupedNum))' = 0
     /\ findProductGroupByInventoryItemId(Num(UngroupedNum))' = 0
    ]_vars

\* ------------------------------------------------------------- C32
\* Requests over a catalog that may leave a call unanswered: shopifyClient is a
\* GraphQLClient built without a timeout or an abort signal, so a request that
\* awaits shopifyClient.request goes on only when the answer arrives.  While one
\* request waits, requests for ungrouped variants keep arriving and are
\* answered at once; nothing obliges the catalog to answer.
HangNext ==
  \/ SeqNext
  \/ CartAddStart(2, Str(UngroupedNum))
  \/ OrderCreate(2, Num(UngroupedNum))

HangFairness ==
  /\ WF_vars(\E s \in Slots : CartAddStart(s, Str(UngroupedNum)))
  /\ WF_vars(\E s \in Slots : OrderCreate(s, Num(UngroupedNum)))

HangSpec == Init /\ [][HangNext]_vars /\ HangFairness

\* C32: every cart-add, inventory-change, order-confirmation and
\* order-cancellation request eventually completes with a result, even when a
\* catalog read or write never responds.
C32_EveryRequestCompletes ==
  \A s \in Slots : (req[s].pc # "idle") ~> (req[s].pc = "idle")

\* ------------------------------------------------------------- C33
\* C33: a unit held by a successful cart-add and then confirmed by an order
\* lowers the group's sharedCount by exactly 1 over the whole sequence: the
\* order confirmation that follows a successful hold of its group consumes the
\* hold and leaves the count where the hold left it.
C33_ConfirmDoesNotDecrementAgain ==
  [][\A s \in Slots, n \in GroupedNums :
       (last.kind = "cart" /\ last.outcome = "ok" /\ last.clean
          /\ OrderCreate(s, Num(n)))
         => \A g \in Groups :
              g = findProductGroupByVariantId(Num(n)) => SharedCount(g)' = SharedCount(g)
    ]_vars

\* ------------------------------------------------------------- C34
\* handleOrderCreate over one line item {variant_id, quantity}: the loop reads
\* item.variant_id and hands it to handleOrderLineItem; item.quantity is not read.
OrderCreateLineItem(s, variantId, quantity) ==
  /\ quantity \in 1..MaxQuantity
  /\ OrderCreate(s, variantId)

\* C34: an order confirmation for a grouped variant with line-item quantity q
\* accounts for exactly q units: the units of the reservations it consumes plus
\* the decrease of sharedCount, which stops at 0, add up to q.
C34_ConfirmationAccountsForQuantity ==
  [][\A s \in Slots, n \in GroupedNums, q \in 1..MaxQuantity :
       OrderCreateLineItem(s, Num(n), q)
         => \A g \in Groups :
              (g = findProductGroupByVariantId(Num(n)) /\ SharedCount(g) >= 0)
                => LET unreserved == q - SumQuantity(Marked)
                   IN SharedCount(g) - SharedCount(g)' =
                        IF unreserved <= SharedCount(g) THEN unreserved ELSE SharedCount(g)
    ]_vars

\* ------------------------------------------------------------- C35
\* C35: whenever a cart-add returns a result other than success (out of stock,
\* not found, or an internal error such as a failed catalog write), the
\* sharedCount of its group equals its value before the call.
C35_FailedCartAddKeepsCount ==
  [][\A s \in Slots :
       (Completes(s) /\ req[s].kind = "cart"
          /\ ResponseOf("cart", last'.outcome) # "success")
         => \A g \in Groups : g = GroupOf(req[s]) => SharedCount(g)' = req[s].pre
    ]_vars

\* ------------------------------------------------------------- C36
\* C36: a registry mutation aimed at one group (save, count update, removal)
\* never removes another group and never changes another group's members or
\* sharedCount, also when reading the stored registry fails or yields an empty
\* or corrupt file.
C36_OtherGroupsUntouched ==
  [][returned'.op \in {"save", "update", "remove"}
       => \A i \in Groups :
            productGroups[i].id # returned'.productGroupId
              => \E j \in 1..Len(productGroups') : productGroups'[j] = productGroups[i]
    ]_vars

\* ------------------------------------------------------------- C37
\* consumeReservationsForGroup over a ledger of caller-made records: two
\* groups, records that are already terminal, and active records whose expiry
\* has passed.
FrameNext ==
  \/ \E reservationData \in CallerData : CreateReservationWith(reservationData)
  \/ \E g \in GroupIds, q \in 1..MaxQuantity : ConsumeReservations(g, q)

FrameSpec == LedgerInit /\ [][FrameNext]_vars

\* C37: consume(groupId, n) changes only reservations of that group that are
\* active and unexpired at the time of the call; reservations of other groups,
\* terminal reservations and expired-but-still-active reservations are left
\* exactly as they were, and no record is added or dropped.
C37_ConsumeTouchesOnlyEligible ==
  [][\A g \in GroupIds, q \in 1..MaxQuantity :
       ConsumeReservations(g, q)
         => /\ Len(reservations') = Len(reservations)
            /\ \A i \in Ledger :
                 (\/ reservations[i].productGroupId # g
                  \/ reservations[i].status # "active"
                  \/ reservations[i].expiresAt <= now)
                   => reservations'[i] = reservations[i]
    ]_vars

\* A consume has just marked one reservation of its group, beside an active
\* reservation of the same group whose expiry had passed and which it left active.
C37_Witness ==
  /\ returned.op = "consume"
  /\ returned.value = 1
  /\ \E i, j \in Ledger :
       /\ reservations[i].productGroupId = returned.productGroupId
       /\ reservations[i].status = "consumed"
       /\ reservations[i].consumedAt = now
       /\ reservations[j].productGroupId = returned.productGroupId
       /\ reservations[j].status = "active"
       /\ reservations[j].expiresAt <= now

\* ------------------------------------------------------------- verifyShopifyWebhook.js
\* The base64 HMAC-SHA256 digests of raw bodies under the shop's secret.
Digests == {"digestA", "digestB"}

\* What X-Shopify-Hmac-Sha256 may carry: nothing, a text of another length than
\* a digest, or a digest.
HmacHeaders == {"none", "short"} \cup Digests

\* A webhook request body.  parserLeaves: what bodyParser.raw leaves in req.body
\* (a Buffer for Content-Type application/json; an empty object or nothing
\* otherwise, by the version of body-parser); digest: the HMAC of the raw
\* bytes; parses: JSON.parse accepts them; variant: the line item it names.
WebhookBodies ==
  [parserLeaves : {"buffer", "object", "undefined"},
   digest : Digests,
   parses : BOOLEAN,
   variant : AllNums]

\* A middleware that lets through every request that carries a header.
verifyHeaderPresent(hmacHeader, body) ==
  IF hmacHeader = "none" THEN "401" ELSE "next"

\* verifyShopifyWebhook: the status it answers with, or "next" when it hands
\* the request, its body parsed, to the handler.
verifyShopifyWebhook(hmacHeader, body) ==
  IF hmacHeader = "none" THEN "401"
  ELSE IF body.parserLeaves = "undefined" THEN "400"
  ELSE IF body.parserLeaves = "object" THEN "500"
  ELSE IF hmacHeader = "short" THEN "500"
  ELSE IF hmacHeader # body.digest THEN "401"
  ELSE IF ~body.parses THEN "400"
  ELSE "next"

WebhookRoutes == {"order-create", "order-cancelled"}

\* app.post(webhookPath/route, rawBodyParser, verifyShopifyWebhook, handler).
Webhook(s, route, hmacHeader, body) ==
  LET status == verifyShopifyWebhook(hmacHeader, body)
  IN IF status = "next"
     THEN IF route = "order-create"
          THEN OrderCreate(s, Num(body.variant))
          ELSE OrderCancelled(s, Num(body.variant), 1)
     ELSE /\ Free(s)
          /\ last' = [kind |-> "webhook", outcome |-> status, clean |-> TRUE]
          /\ UNCHANGED <<productGroups, reservations, catalog, req, now, returned>>

WebhookNext ==
  \/ \E route \in WebhookRoutes, hmacHeader \in HmacHeaders, body \in WebhookBodies :
       Webhook(1, route, hmacHeader, body)
  \/ \E answer \in {"ok", "noLocation", "error"} : FanOutWrite(1, answer)

\* Webhook requests, genuine and not, one at a time.
WebhookSpec == Init /\ [][WebhookNext]_vars

MaxCart == 2

\* The elements setupCartMonitoring attaches handleAddToCart to: a cart form
\* (submit), a [data-add-to-cart] submit button inside that form (click), and a
\* [data-add-to-cart] element that stands in no form (click).
Monitored == {"form", "button", "loneButton"}

\* event.target.closest('form') finds a form.
HasForm(element) == element # "loneButton"

\* What getVariantIdFromForm may return: 0 stands for null.
FormVariantIds == {0} \cup AllNums

\* What notifyCartAddition may come back with: the server's success, its
\* {success: false}, its 500 body {error: ...}, or the failure object made up
\* when fetch throws.
CartAnswers == {"success", "rejected", "error", "unreachable"}

\* The element on which handleAddToCart calls preventDefault when the event
\* starts at element, or "none" when the event runs to its default action: the
\* handler returns early without a form or without a variant id, an element
\* without the listener does not call it, and a submit button's click that is
\* not prevented raises the form's submit event.
Interceptor(listeners, element, variantId) ==
  LET intercepts(e) == e \in listeners /\ HasForm(e) /\ variantId # 0
  IN IF intercepts(element) THEN element
     ELSE IF element = "button" /\ intercepts("form") THEN "form"
     ELSE "none"

\* The storefront page: the listeners attached, the handler that waits for the
\* server, whether a success answer has come for the add in hand, and the adds
\* that reached the store.
Storefront(listeners, pc, target, variantId, succeeded, cart) ==
  [op |-> "addToCart", listeners |-> listeners, pc |-> pc, target |-> target,
   variantId |-> variantId, succeeded |-> succeeded, cart |-> cart]

\* The add reaches the store.  A form submission loads a new page, on which
\* setupCartMonitoring runs again; a lone button's add leaves the page as it is.
Proceed(page, element, variantId, succeeded) ==
  Storefront(IF HasForm(element) THEN Monitored ELSE page.listeners,
             "idle", "none", variantId, succeeded, Append(page.cart, variantId))

\* An event starts at element, or is triggered again there by click().
Dispatch(page, element, variantId, succeeded) ==
  LET target == Interceptor(page.listeners, element, variantId)
  IN IF target = "none"
     THEN Proceed(page, element, variantId, succeeded)
     ELSE Storefront(page.listeners, "awaiting", target, variantId, succeeded, page.cart)

\* The shopper submits a monitored form or clicks a monitored button:
\* handleAddToCart up to its await.
AddToCartEvent(element, variantId) ==
  /\ returned.pc = "idle"
  /\ Len(returned.cart) < MaxCart
  /\ returned' = Dispatch(returned, element, variantId, FALSE)
  /\ UNCHANGED <<productGroups, reservations, catalog, req, last, now>>

\* notifyCartAddition resolves: handleAddToCart from its await on.  After a
\* success a button loses its listener and is clicked again; a form loses its
\* listener and is submitted.
AddToCartAnswer(response) ==
  /\ returned.pc = "awaiting"
  /\ returned' =
       IF handleAddToCart(response) = "submit"
       THEN IF returned.target = "button"
            THEN Dispatch([returned EXCEPT !.listeners = @ \ {"button"}],
                          "button", returned.variantId, TRUE)
            ELSE Proceed(returned, "form", returned.variantId, TRUE)
       ELSE [returned EXCEPT !.pc = "idle", !.target = "none"]
  /\ UNCHANGED <<productGroups, reservations, catalog, req, last, now>>

MonitorInit ==
  /\ catalog = [n \in GroupedNums |-> 1]
  /\ productGroups = InitialGroups(catalog)
  /\ reservations = << >>
  /\ req = [s \in Slots |-> Idle]
  /\ last = NoResponse
  /\ now = 0
  /\ returned = Storefront(Monitored, "idle", "none", 0, FALSE, << >>)

MonitorNext ==
  \/ \E element \in Monitored, variantId \in FormVariantIds :
       AddToCartEvent(element, variantId)
  \/ \E response \in CartAnswers : AddToCartAnswer(response)

\* The storefront script with the server seen through its answers.
MonitorSpec == MonitorInit /\ [][MonitorNext]_vars

\* ------------------------------------------------------------- C39
\* C39: in the cart monitor, every add-to-cart action on a monitored form or
\* button that proceeds to the store was preceded by a success answer of the
\* server for that same action; when the server rejects, errors or is
\* unreachable, the action does not proceed.
C39_ProceedsOnlyAfterSuccess ==
  [][/\ Len(returned'.cart) > Len(returned.cart) => returned'.succeeded
     /\ \A response \in CartAnswers \ {"success"} :
          AddToCartAnswer(response) => returned'.cart = returned.cart
    ]_vars

====
